---- MODULE Spec2Model ----
(***************************************************************************)
(* Model of the PnP command station (src/pnp.py): the serial session       *)
(* (connect / disconnect / send / emergency stop), the jog state, and the  *)
(* background port scan with its UI-thread callbacks.                      *)
(*                                                                         *)
(* Handlers bound to Tk events run to completion on the UI thread, so each *)
(* is one action.  The port-scan threads run concurrently with the UI      *)
(* thread; each access they make to shared state (port_refreshing, the Tk  *)
(* "after" queue) is a step of its own.                                    *)
(***************************************************************************)
EXTENDS Integers, Sequences, FiniteSets, Bags, TLC

\* ------------------------------------------------------------------ bounds
MaxOpens == 2      \* serial.Serial() objects successfully created in a run
MaxScans == 2      \* scan threads started in a run, the startup scan included
MaxPorts == 2      \* devices returned by one enumeration
MaxFilterPorts == 4  \* devices returned by the enumeration FilterSpec follows

\* --------------------------------------------------------------- constants
None == 0
xy_speed == 1500
z_speed == 300
SCANNING == "Scanning..."
NO_USB == "No USB Found"

\* step sizes 0.01, 0.1, 1.0, 10.0 mm, held in thousandths of a millimetre
StepSizes == {10, 100, 1000, 10000}

\* the values of the four step buttons (lines 129-134)
ButtonSteps == {10, 100, 1000, 10000}

\* variant: the backslash key is bound to 100.0
KeySteps_backslash100 == {10, 100, 1000, 100000}

\* the values bound to the keys n, s, minus, backslash (lines 370-373)
KeySteps == {10, 100, 1000, 10000}

Handles == 1..MaxOpens

\* ------------------------------------------------- device names (p.device)
Devices == {"Bluetooth-Serial-1", "COM3", "wireless-dbg"}

\* further names, enumerated in FilterSpec only
FilterDevices == Devices \cup {"usb-A", "WIRELESS-2", "Blue-COM"}

Chars(name) ==
    CASE name = "Bluetooth-Serial-1" ->
            <<"B","l","u","e","t","o","o","t","h","-","S","e","r","i","a","l","-","1">>
      [] name = "COM3" -> <<"C","O","M","3">>
      [] name = "wireless-dbg" ->
            <<"w","i","r","e","l","e","s","s","-","d","b","g">>
      [] name = "usb-A" -> <<"u","s","b","-","A">>
      [] name = "WIRELESS-2" -> <<"W","I","R","E","L","E","S","S","-","2">>
      [] name = "Blue-COM" -> <<"B","l","u","e","-","C","O","M">>

\* str.lower() on one character
LowerChar(c) ==
    CASE c = "A" -> "a" [] c = "B" -> "b" [] c = "C" -> "c"
      [] c = "E" -> "e" [] c = "I" -> "i" [] c = "L" -> "l"
      [] c = "M" -> "m" [] c = "O" -> "o" [] c = "R" -> "r"
      [] c = "S" -> "s" [] c = "W" -> "w"
      [] OTHER -> c

lower(s) == [i \in 1..Len(s) |-> LowerChar(s[i])]

\* Python's `sub in s` on strings
Contains(s, sub) ==
    \E k \in 0..(Len(s) - Len(sub)) :
        \A j \in 1..Len(sub) : s[k + j] = sub[j]

BLUETOOTH == <<"b","l","u","e","t","o","o","t","h">>
WIRELESS == <<"w","i","r","e","l","e","s","s">>

\* variant: the name is not lowered before the test
KeepPort_caseSensitive(dev) ==
    LET name == Chars(dev)
    IN  ~Contains(name, BLUETOOTH) /\ ~Contains(name, WIRELESS)

\* the test of line 217
KeepPort(dev) ==
    LET name == lower(Chars(dev))
    IN  ~Contains(name, BLUETOOTH) /\ ~Contains(name, WIRELESS)

\* the loop of lines 212-218: clean_ports in enumeration order
RECURSIVE FilterPorts(_)
FilterPorts(all_ports) ==
    IF all_ports = <<>> THEN <<>>
    ELSE LET rest == FilterPorts(Tail(all_ports))
         IN  IF KeepPort(Head(all_ports)) THEN <<Head(all_ports)>> \o rest
             ELSE rest

\* what comports() may return: duplicate-free lists of at most MaxPorts devices
Enumerations ==
    { s \in UNION { [1..n -> Devices] : n \in 0..MaxPorts } :
        \A i, j \in 1..Len(s) : i # j => s[i] # s[j] }

\* the same over the larger set of names, at most MaxFilterPorts devices
FilterEnumerations ==
    { s \in UNION { [1..n -> FilterDevices] : n \in 0..MaxFilterPorts } :
        \A i, j \in 1..Len(s) : i # j => s[i] # s[j] }

\* ---------------------------------------------------------------- commands
Cmd(op, axis, dist, feed) == [op |-> op, axis |-> axis, dist |-> dist, feed |-> feed]
NoDist == <<>>
G91 == Cmd("G91", "", NoDist, 0)
M107 == Cmd("M107", "", NoDist, 0)
M112 == Cmd("M112", "", NoDist, 0)

\* variant: the format is ":.2f"
Fmt3_twoDecimals(m) ==
    LET a == IF m < 0 THEN -m ELSE m
    IN  <<IF m < 0 THEN "-" ELSE "", a \div 1000,
          (a \div 100) % 10, (a \div 10) % 10>>

\* f"{x:.3f}" for x given in thousandths: sign, integer part, three decimals
Fmt3(m) ==
    LET a == IF m < 0 THEN -m ELSE m
    IN  <<IF m < 0 THEN "-" ELSE "", a \div 1000,
          (a \div 100) % 10, (a \div 10) % 10, a % 10>>

\* the command string of line 381
MoveCmd(axis, direction, step) ==
    Cmd("G0", axis, Fmt3(step * direction), IF axis = "Z" THEN z_speed ELSE xy_speed)

\* ------------------------------------------------------------------- state
VARIABLES
    is_connected,     \* self.is_connected
    serial_conn,      \* self.serial_conn: None or the handle last created
    is_open,          \* is_open of every serial.Serial object created so far
    nHandles,         \* number of serial.Serial objects created so far
    g91_sent,         \* history: G91 has been written to the handle in serial_conn
    latched,          \* history: emergency_stop ran, no connect succeeded since
    disconnected,     \* history: the disconnect branch ran, no connect succeeded since
    step_size,        \* self.step_size
    port_refreshing,  \* self.port_refreshing
    combo,            \* self.port_combo: values, selection, state
    pc,               \* bag of the positions of the live scan threads
    nScans,           \* number of scan threads started so far
    all_ports,        \* worker's all_ports, kept only where the worker is
                      \* followed from a given enumeration (FilterSpec)
    uiq,              \* callbacks scheduled with root.after(0, ...), in order
    ev,               \* the step just taken and its outcome
    tx,               \* commands written to the transport by that step
    hlog              \* messages passed to log() by that step

sessVars == <<is_connected, serial_conn, is_open, nHandles, g91_sent, latched,
              disconnected>>
scanVars == <<port_refreshing, pc, nScans, uiq, all_ports>>
vars == <<is_connected, serial_conn, is_open, nHandles, g91_sent, latched,
          disconnected, step_size, port_refreshing, combo, pc, nScans, uiq,
          all_ports, ev, tx, hlog>>

Event(op, res) == [op |-> op, res |-> res, was |-> is_connected]

\* -------------------------------------------- session, as the handlers see it
Sess ==
    [is_connected |-> is_connected, serial_conn |-> serial_conn,
     is_open |-> is_open, nHandles |-> nHandles, g91_sent |-> g91_sent,
     latched |-> latched, disconnected |-> disconnected,
     tx |-> <<>>, hlog |-> <<>>, res |-> ""]

Commit(s) ==
    /\ is_connected' = s.is_connected
    /\ serial_conn' = s.serial_conn
    /\ is_open' = s.is_open
    /\ nHandles' = s.nHandles
    /\ g91_sent' = s.g91_sent
    /\ latched' = s.latched
    /\ disconnected' = s.disconnected
    /\ tx' = s.tx
    /\ hlog' = s.hlog

log(s, msg) == [s EXCEPT !.hlog = Append(@, msg)]

\* the gate of line 384
SendGate(s) == s.serial_conn # None /\ s.is_open[s.serial_conn]

\* variant: a failed write drops the session
send_gcode_dropsSession(s, cmd, wok) ==
    IF SendGate(s)
    THEN IF wok
         THEN log([s EXCEPT !.tx = Append(@, cmd),
                            !.g91_sent = @ \/ cmd.op = "G91"], ">")
         ELSE [log(s, "Serial write error") EXCEPT !.is_connected = FALSE,
                                                   !.serial_conn = None]
    ELSE s

\* send_gcode(cmd); wok: whether serial_conn.write() returns or raises
send_gcode(s, cmd, wok) ==
    IF SendGate(s)
    THEN IF wok
         THEN log([s EXCEPT !.tx = Append(@, cmd),
                            !.g91_sent = @ \/ cmd.op = "G91"], ">")
         ELSE log(s, "Serial write error")
    ELSE s

\* ------------------------------------------------------- session handlers
\* variant: the "No USB Found" placeholder is not tested
InvalidPort_noUsbAccepted(port) == port = "" \/ port = SCANNING

\* the test of line 255
InvalidPort(port) == port = "" \/ port = SCANNING \/ port = NO_USB

\* variant: is_connected = True is reached although the open raised
connect_except_marksConnected(s) ==
    [log(s, "Conn Error") EXCEPT !.res = "open_failed", !.is_connected = TRUE]

\* the handler of lines 265-266
connect_except(s) == [log(s, "Conn Error") EXCEPT !.res = "open_failed"]

\* _toggle_connection, branch `not self.is_connected` (lines 253-266).
\* openOk: whether serial.Serial(...) returns or raises.
connect(s, port, openOk, wok) ==
    IF InvalidPort(port)
    THEN [log(s, "No valid port selected!") EXCEPT !.res = "rejected"]
    ELSE IF ~openOk
    THEN connect_except(s)
    ELSE LET h == s.nHandles + 1
             s1 == [s EXCEPT !.serial_conn = h, !.nHandles = h,
                             !.is_open[h] = TRUE, !.g91_sent = FALSE]
             s2 == send_gcode(s1, G91, wok)
             s3 == log(s2, "CONNECTED")
         IN  [s3 EXCEPT !.is_connected = TRUE, !.latched = FALSE,
                        !.disconnected = FALSE, !.res = "connected"]

\* variant: is_connected = False sits inside the try, after close()
disconnect_insideTry(s, closeOk) ==
    LET s1 == IF s.serial_conn # None /\ closeOk
              THEN [s EXCEPT !.is_open[s.serial_conn] = FALSE,
                             !.is_connected = FALSE]
              ELSE s
    IN  [log(s1, "Disconnected") EXCEPT
            !.disconnected = TRUE,
            !.res = IF s.serial_conn = None THEN "no_handle"
                    ELSE IF closeOk THEN "closed" ELSE "close_raised"]

\* _toggle_connection, branch `else` (lines 267-275).
\* closeOk: whether serial_conn.close() returns or raises; a close() that
\* raises leaves the handle as it was.
disconnect(s, closeOk) ==
    LET s1 == IF s.serial_conn # None /\ closeOk
              THEN [s EXCEPT !.is_open[s.serial_conn] = FALSE]
              ELSE s
        s2 == [s1 EXCEPT !.is_connected = FALSE, !.disconnected = TRUE]
    IN  [log(s2, "Disconnected") EXCEPT
            !.res = IF s.serial_conn = None THEN "no_handle"
                    ELSE IF closeOk THEN "closed" ELSE "close_raised"]

\* variant: no is_connected test, the gate of send_gcode is relied upon
move_ungated(s, axis, direction, step, wok) ==
    send_gcode(s, MoveCmd(axis, direction, step), wok)

\* move(axis, direction) (lines 376-381)
move(s, axis, direction, step, wok) ==
    IF ~s.is_connected THEN s
    ELSE send_gcode(s, MoveCmd(axis, direction, step), wok)

\* _kill_fans (lines 167-170)
kill_fans(s, wok) == log(send_gcode(s, M107, wok), "Sent M107 (Fans Off)")

\* variant: is_connected = False is skipped when the write raised
emergency_stop_skipOnError(s, wok) ==
    LET s1 == send_gcode(s, M112, wok)
        s2 == log(s1, "!!! EMERGENCY STOP !!!")
    IN  [s2 EXCEPT !.is_connected = IF SendGate(s) /\ ~wok THEN @ ELSE FALSE,
                   !.latched = TRUE]

\* emergency_stop (lines 392-399)
emergency_stop(s, wok) ==
    LET s1 == send_gcode(s, M112, wok)
        s2 == log(s1, "!!! EMERGENCY STOP !!!")
    IN  [s2 EXCEPT !.is_connected = FALSE, !.latched = TRUE]

\* --------------------------------------------------------------------- Init
\* The state when __init__ returns: set_step_size(1.0) has run and the
\* startup start_port_scan() has started thread 1, which has not run yet.
Init ==
    /\ is_connected = FALSE
    /\ serial_conn = None
    /\ is_open = [h \in Handles |-> FALSE]
    /\ nHandles = 0
    /\ g91_sent = FALSE
    /\ latched = FALSE
    /\ disconnected = FALSE
    /\ step_size = 1000
    /\ port_refreshing = FALSE
    /\ combo = [values |-> <<SCANNING>>, sel |-> "", state |-> "readonly"]
    /\ pc = SetToBag({"check"})
    /\ nScans = 1
    /\ uiq = <<>>
    /\ all_ports = <<>>
    /\ ev = [op |-> "init", res |-> "", was |-> FALSE]
    /\ tx = <<>>
    /\ hlog = <<>>

\* ------------------------------------------------------ UI-thread handlers
\* click on the connect button; once MaxOpens handles exist every further
\* open raises
ToggleConnection ==
    \E openOk, wok, closeOk \in BOOLEAN :
        /\ openOk => nHandles < MaxOpens
        /\ LET s == IF ~is_connected
                    THEN connect(Sess, combo.sel, openOk, wok)
                    ELSE disconnect(Sess, closeOk)
           IN  Commit(s) /\ ev' = Event("toggle", s.res)
        /\ UNCHANGED <<step_size, combo, scanVars>>

\* arrow keys, v/V, z/Z (lines 361-369)
Move ==
    \E axis \in {"X", "Y", "Z"}, direction \in {-1, 1}, wok \in BOOLEAN :
        /\ Commit(move(Sess, axis, direction, step_size, wok))
        /\ ev' = Event("move", "")
        /\ UNCHANGED <<step_size, combo, scanVars>>

\* click on the fan button
KillFans ==
    \E wok \in BOOLEAN :
        /\ Commit(kill_fans(Sess, wok))
        /\ ev' = Event("kill_fans", "")
        /\ UNCHANGED <<step_size, combo, scanVars>>

\* space bar (line 374)
EmergencyStop ==
    \E wok \in BOOLEAN :
        /\ Commit(emergency_stop(Sess, wok))
        /\ ev' = Event("emergency_stop", "")
        /\ UNCHANGED <<step_size, combo, scanVars>>

\* set_step_size(val): the four buttons (line 139) and keys (lines 370-373)
SetStepSize ==
    \E val \in ButtonSteps \cup KeySteps :
        /\ step_size' = val
        /\ ev' = Event("set_step_size", "")
        /\ tx' = <<>>
        /\ hlog' = <<"Step Size">>
        /\ UNCHANGED <<sessVars, combo, scanVars>>

\* the operator picks an entry of the drop-down list (readonly combobox)
SelectPort ==
    /\ combo.state = "readonly"
    /\ \E k \in 1..Len(combo.values) :
          combo' = [combo EXCEPT !.sel = combo.values[k]]
    /\ ev' = Event("select", "")
    /\ tx' = <<>>
    /\ hlog' = <<>>
    /\ UNCHANGED <<sessVars, step_size, scanVars>>

\* ---------------------------------------------------------------- port scan
\* The scan threads run the same code and hold no identity of their own:
\* pc is the bag of their positions.  A thread that returns leaves the bag.
Advance(from, to) ==
    /\ BagIn(from, pc)
    /\ pc' = (pc (-) SetToBag({from})) (+) SetToBag({to})

Finish(from) ==
    /\ BagIn(from, pc)
    /\ pc' = pc (-) SetToBag({from})

\* start_port_scan (lines 182-188): click on the combobox or on the refresh
\* button
StartPortScan ==
    /\ port_refreshing \/ nScans < MaxScans
    /\ IF port_refreshing
       THEN /\ UNCHANGED <<pc, nScans>>
            /\ ev' = Event("start_port_scan", "ignored")
       ELSE /\ pc' = pc (+) SetToBag({"check"})
            /\ nScans' = nScans + 1
            /\ ev' = Event("start_port_scan", "started")
    /\ tx' = <<>>
    /\ hlog' = <<>>
    /\ UNCHANGED <<sessVars, step_size, combo, port_refreshing, uiq, all_ports>>

\* _refresh_ports, the test of lines 192-193, on the scan thread
RefreshCheck ==
    /\ IF port_refreshing THEN Finish("check") ELSE Advance("check", "set")
    /\ ev' = Event("refresh_check", "")
    /\ tx' = <<>>
    /\ hlog' = <<>>
    /\ UNCHANGED <<sessVars, step_size, combo, port_refreshing, nScans, uiq,
                   all_ports>>

\* _refresh_ports, line 195
RefreshSet ==
    /\ Advance("set", "sched")
    /\ port_refreshing' = TRUE
    /\ ev' = Event("refresh_set", "")
    /\ tx' = <<>>
    /\ hlog' = <<>>
    /\ UNCHANGED <<sessVars, step_size, combo, nScans, uiq, all_ports>>

Callback(fn, ports) == [fn |-> fn, ports |-> ports]

\* _refresh_ports, lines 205 and 248-249: schedule ui_scanning, start worker
RefreshSchedule ==
    /\ Advance("sched", "enum")
    /\ uiq' = Append(uiq, Callback("ui_scanning", <<>>))
    /\ ev' = Event("refresh_schedule", "")
    /\ tx' = <<>>
    /\ hlog' = <<>>
    /\ UNCHANGED <<sessVars, step_size, combo, port_refreshing, nScans, all_ports>>

\* worker (lines 207-245): comports() returns a list or raises; clean_ports
\* is local to the thread and reaches the UI thread with the update_ui
\* closure queued at line 245
worker_clean_ports(ports, raised) ==
    IF raised THEN <<>> ELSE FilterPorts(ports)

\* variant: update_ui is called by the worker itself
worker_deliver_direct(w, ports) ==
    [w EXCEPT !.combo = IF ports # <<>>
                        THEN [values |-> ports, sel |-> ports[1],
                              state |-> "readonly"]
                        ELSE [values |-> <<NO_USB>>, sel |-> NO_USB,
                              state |-> "readonly"],
              !.port_refreshing = FALSE]

\* line 245: self.root.after(0, update_ui); w holds what update_ui acts on
worker_deliver(w, ports) ==
    [w EXCEPT !.uiq = Append(@, Callback("update_ui", ports))]

WorkerOn(ports, raised) ==
    /\ Finish("enum")
    /\ LET w == worker_deliver([uiq |-> uiq, combo |-> combo,
                                port_refreshing |-> port_refreshing],
                               worker_clean_ports(ports, raised))
       IN  /\ uiq' = w.uiq
           /\ combo' = w.combo
           /\ port_refreshing' = w.port_refreshing
    /\ hlog' = IF raised THEN <<"Scan error (worker)">> ELSE <<>>
    /\ ev' = Event("worker", IF raised THEN "raised" ELSE "ok")
    /\ tx' = <<>>
    /\ UNCHANGED <<sessVars, step_size, nScans, all_ports>>

Worker ==
    \E ports \in Enumerations, raised \in BOOLEAN : WorkerOn(ports, raised)

\* ui_scanning (lines 198-204), run by the Tk main loop; uok: whether the
\* widget calls return or the first of them raises
ui_scanning(c, uok) ==
    IF uok THEN [values |-> <<SCANNING>>, sel |-> SCANNING, state |-> "disabled"]
    ELSE c

UiScanning ==
    /\ uiq # <<>>
    /\ Head(uiq).fn = "ui_scanning"
    /\ \E uok \in BOOLEAN :
          /\ combo' = ui_scanning(combo, uok)
          /\ ev' = Event("ui_scanning", IF uok THEN "ok" ELSE "raised")
    /\ uiq' = Tail(uiq)
    /\ tx' = <<>>
    /\ hlog' = <<>>
    /\ UNCHANGED <<sessVars, step_size, port_refreshing, pc, nScans, all_ports>>

\* update_ui (lines 224-243): the try block, and the flag after `finally`
update_ui_combo(c, ports, uok) ==
    IF ~uok THEN c
    ELSE IF ports # <<>>
    THEN [values |-> ports, sel |-> ports[1], state |-> "readonly"]
    ELSE [values |-> <<NO_USB>>, sel |-> NO_USB, state |-> "readonly"]

update_ui_log(ports, uok) ==
    IF ~uok THEN <<"UI update error">>
    ELSE IF ports # <<>> THEN <<"Found">> ELSE <<"No USB ports found.">>

\* variant: the flag is cleared at the end of the try block, not in `finally`
update_ui_flag_noFinally(flag, uok) == IF uok THEN FALSE ELSE flag

\* line 243, in `finally`
update_ui_flag(flag, uok) == FALSE

UpdateUi ==
    /\ uiq # <<>>
    /\ Head(uiq).fn = "update_ui"
    /\ \E uok \in BOOLEAN :
          /\ combo' = update_ui_combo(combo, Head(uiq).ports, uok)
          /\ hlog' = update_ui_log(Head(uiq).ports, uok)
          /\ port_refreshing' = update_ui_flag(port_refreshing, uok)
          /\ ev' = Event("update_ui", IF uok THEN "ok" ELSE "raised")
    /\ uiq' = Tail(uiq)
    /\ tx' = <<>>
    /\ UNCHANGED <<sessVars, step_size, pc, nScans, all_ports>>

\* ------------------------------------------------------------ specification
UiThread ==
    \/ EmergencyStop
    \/ KillFans
    \/ Move
    \/ ToggleConnection
    \/ SetStepSize
    \/ SelectPort
    \/ StartPortScan
    \/ UiScanning
    \/ UpdateUi

ScanThread ==
    \/ RefreshCheck
    \/ RefreshSet
    \/ RefreshSchedule
    \/ Worker

Next == UiThread \/ ScanThread

Spec == Init /\ [][Next]_vars

\* The scan threads are scheduled by the OS and the Tk main loop runs the
\* callbacks queued with root.after: none of them waits forever.
LiveSpec ==
    /\ Spec
    /\ WF_vars(RefreshCheck)
    /\ WF_vars(RefreshSet)
    /\ WF_vars(RefreshSchedule)
    /\ WF_vars(Worker)
    /\ WF_vars(UiScanning)
    /\ WF_vars(UpdateUi)

\* The worker followed from a given result of comports(): the state is the
\* one in which worker starts (flag set, ui_scanning queued), all_ports is
\* what the enumeration of line 210 returns.
FilterInit ==
    /\ is_connected = FALSE
    /\ serial_conn = None
    /\ is_open = [h \in Handles |-> FALSE]
    /\ nHandles = 0
    /\ g91_sent = FALSE
    /\ latched = FALSE
    /\ disconnected = FALSE
    /\ step_size = 1000
    /\ port_refreshing = TRUE
    /\ combo = [values |-> <<SCANNING>>, sel |-> "", state |-> "readonly"]
    /\ pc = SetToBag({"enum"})
    /\ nScans = 1
    /\ uiq = <<Callback("ui_scanning", <<>>)>>
    /\ all_ports \in FilterEnumerations
    /\ ev = [op |-> "refresh_schedule", res |-> "", was |-> FALSE]
    /\ tx = <<>>
    /\ hlog = <<>>

FilterWorker == \E raised \in BOOLEAN : WorkerOn(all_ports, raised)

FilterNext == FilterWorker \/ UiScanning \/ UpdateUi

FilterSpec == FilterInit /\ [][FilterNext]_vars

\* ------------------------------------------------------------------ claims
\* ev names the step that led to the current state and ev.was the value of
\* is_connected before it; tx and hlog are what that step wrote and logged.
Toggled(res) == ev.op = "toggle" /\ ev.res = res

\* C1: between handlers, is_connected is true iff serial_conn is present
\* and open.
C1_SessionInvariant ==
    is_connected <=> (serial_conn # None /\ is_open[serial_conn])

\* C2: emergency_stop() always ends with is_connected false, whatever the
\* prior state and whether the M112 write succeeded, raised or was skipped.
C2_EStopDisconnects == ev.op = "emergency_stop" => ~is_connected

\* emergency stop while connected, the M112 write raising
C2_Witness ==
    /\ ev.op = "emergency_stop"
    /\ ev.was
    /\ hlog = <<"Serial write error", "!!! EMERGENCY STOP !!!">>
    /\ ~is_connected

\* C3: once emergency_stop() has run, no move() writes to the transport
\* until a later connect has succeeded.
C3_EStopLatch == (latched /\ ev.op = "move") => tx = <<>>

\* a jog key pressed after an emergency stop that left the handle open
C3_Witness ==
    /\ latched
    /\ ev.op = "move"
    /\ serial_conn # None
    /\ is_open[serial_conn]
    /\ tx = <<>>

\* C4: whenever is_connected is false, send_gcode called from move,
\* _kill_fans or emergency_stop writes nothing to the transport.
C4_SendNoOpWhenDisconnected ==
    (~ev.was /\ ev.op \in {"move", "kill_fans", "emergency_stop"}) => tx = <<>>

\* C5: after a successful connect is_connected is true, and no other command
\* is written to the newly opened transport before G91 has been.
C5_FirstCommandIsG91 ==
    /\ Toggled("connected") => is_connected
    /\ \A k \in 1..Len(tx) : tx[k].op # "G91" => g91_sent

\* C6: at most one enumeration worker is launched and undelivered at a time.
Deliveries == {k \in 1..Len(uiq) : uiq[k].fn = "update_ui"}
C6_AtMostOneScan == CopiesIn("enum", pc) + Cardinality(Deliveries) <= 1

\* C7: a scan that set port_refreshing eventually clears it, also when the
\* enumeration raises and when the UI update raises.
C7_FlagEventuallyCleared == port_refreshing ~> ~port_refreshing

\* the UI update raised and the flag is cleared all the same
C7_Witness ==
    /\ ev.op = "update_ui"
    /\ ev.res = "raised"
    /\ ~port_refreshing

\* C8: connect with "", "Scanning..." or "No USB Found" selected leaves the
\* session as it was, opens no transport and writes nothing.
C8_PlaceholderRejected ==
    [][(/\ ~is_connected
        /\ combo.sel \in {"", "Scanning...", "No USB Found"}
        /\ ToggleConnection)
        => (UNCHANGED <<is_connected, serial_conn, is_open, nHandles>>
                /\ tx' = <<>>)]_vars

\* connect pressed with the "No USB Found" placeholder selected
C8_Witness ==
    /\ Toggled("rejected")
    /\ combo.sel = "No USB Found"
    /\ ~is_connected

\* C9: when the open raises, the error is logged as a connection error,
\* is_connected stays false and nothing is written.
C9_OpenFailure ==
    Toggled("open_failed") =>
        (~is_connected /\ tx = <<>> /\ hlog = <<"Conn Error">>)

\* a failed open on a real port name
C9_Witness ==
    /\ Toggled("open_failed")
    /\ combo.sel = "COM3"
    /\ ~is_connected

\* C10: disconnect closes the transport when close() returns and ends with
\* is_connected false whether close() returned or raised.
C10_Disconnect ==
    (ev.op = "toggle" /\ ev.was)
        => (/\ ~is_connected
            /\ ev.res \in {"closed", "close_raised"}
            /\ ev.res = "closed" => ~is_open[serial_conn])

\* a disconnect whose close() raised
C10_Witness ==
    /\ Toggled("close_raised")
    /\ ~is_connected
    /\ is_open[serial_conn]

C12_SendNoOpAfterDisconnect == disconnected => (~is_connected /\ tx = <<>>)

\* C13: a write failure inside send_gcode is logged and does not reach the
\* caller, which runs its remaining statements; the send itself leaves
\* is_connected and serial_conn as they were.
WriteFailed == \E k \in 1..Len(hlog) : hlog[k] = "Serial write error"

C13_WriteFailureContained ==
    [][WriteFailed' =>
        /\ ev'.op \in {"move", "kill_fans", "emergency_stop", "toggle"}
        /\ ev'.op = "move" =>
              /\ UNCHANGED <<is_connected, serial_conn>>
              /\ hlog' = <<"Serial write error">>
        /\ ev'.op = "kill_fans" =>
              /\ UNCHANGED <<is_connected, serial_conn>>
              /\ hlog' = <<"Serial write error", "Sent M107 (Fans Off)">>
        /\ ev'.op = "emergency_stop" =>
              /\ ~is_connected' /\ serial_conn' = serial_conn
              /\ hlog' = <<"Serial write error", "!!! EMERGENCY STOP !!!">>
        /\ ev'.op = "toggle" =>
              /\ is_connected' /\ serial_conn' = nHandles'
              /\ hlog' = <<"Serial write error", "CONNECTED">>]_vars

\* the M107 write raised while connected and _kill_fans ran to its end
C13_Witness ==
    /\ ev.op = "kill_fans"
    /\ hlog = <<"Serial write error", "Sent M107 (Fans Off)">>
    /\ is_connected
    /\ serial_conn # None

\* C14: for every axis, direction and step size the command move() emits
\* while connected is "G0 <axis><d> F<feed>", d being direction x step_size
\* with exactly three decimals (0.010, 0.100, 1.000, 10.000, a leading "-"
\* for direction -1) and feed z_speed for Z, xy_speed for X and Y.
C14_Digits(step) ==
    CASE step = 10 -> <<0, 0, 1, 0>>
      [] step = 100 -> <<0, 1, 0, 0>>
      [] step = 1000 -> <<1, 0, 0, 0>>
      [] step = 10000 -> <<10, 0, 0, 0>>

C14_Expected(axis, direction, step) ==
    [op |-> "G0", axis |-> axis,
     dist |-> <<IF direction = -1 THEN "-" ELSE "">> \o C14_Digits(step),
     feed |-> IF axis = "Z" THEN 300 ELSE 1500]

C14_MoveEncoding ==
    [][\A axis \in {"X", "Y", "Z"}, direction \in {-1, 1} :
         (/\ is_connected
          /\ ev'.op = "move"
          /\ Commit(move(Sess, axis, direction, step_size, TRUE)))
         => tx' = <<C14_Expected(axis, direction, step_size)>>]_vars

\* step 0.1 selected, then z pressed while connected: "G0 Z-0.100 F300"
C14_Witness ==
    /\ ev.op = "move"
    /\ ev.was
    /\ step_size = 100
    /\ tx = <<[op |-> "G0", axis |-> "Z", dist |-> <<"-", 0, 1, 0, 0>>,
               feed |-> 300]>>

\* C15: the list a scan delivers is exactly the enumerated devices whose
\* name contains neither "bluetooth" nor "wireless", whatever the case of
\* the letters, in enumeration order.
C15_Excluded == {"Bluetooth-Serial-1", "wireless-dbg", "WIRELESS-2"}

C15_Delivered == uiq[Len(uiq)].ports

C15_Filtering ==
    (ev.op = "worker" /\ ev.res = "ok") =>
        /\ uiq[Len(uiq)].fn = "update_ui"
        /\ \A d \in FilterDevices :
              (\E k \in 1..Len(C15_Delivered) : C15_Delivered[k] = d)
                  <=> (/\ \E i \in 1..Len(all_ports) : all_ports[i] = d
                       /\ d \notin C15_Excluded)
        /\ \A k, l \in 1..Len(C15_Delivered) :
              k < l => \E i, j \in 1..Len(all_ports) :
                          /\ i < j
                          /\ all_ports[i] = C15_Delivered[k]
                          /\ all_ports[j] = C15_Delivered[l]

\* the enumeration of the example and its delivery
C15_Witness ==
    /\ ev.op = "worker"
    /\ all_ports = <<"usb-A", "Bluetooth-Serial-1", "COM3", "wireless-dbg">>
    /\ C15_Delivered = <<"usb-A", "COM3">>

\* C16: step_size is always one of 0.01, 0.1, 1.0, 10.0, from startup on
\* and through every interleaving of events, and only set_step_size
\* changes it.
C16_StepSizeInvariant ==
    /\ [](step_size \in {10, 100, 1000, 10000})
    /\ [][step_size' # step_size => ev'.op = "set_step_size"]_vars

\* a jog of 10 mm written while connected, after the backslash key
C16_Witness ==
    /\ ev.op = "move"
    /\ step_size = 10000
    /\ tx # <<>>

\* the steps taken on a port-scan thread (_refresh_ports, worker)
ScanOps == {"refresh_check", "refresh_set", "refresh_schedule", "worker"}

\* C17: the delivery of a scan result is scheduled onto the UI thread: no
\* step of a scan thread updates the port list or clears port_refreshing.
C17_DeliveryOnUiThread ==
    [][ev'.op \in ScanOps =>
        /\ combo' = combo
        /\ port_refreshing => port_refreshing']_vars

\* a delivery made by the Tk main loop
C17_Witness ==
    /\ ev.op = "update_ui"
    /\ ev.res = "ok"
    /\ combo.values = <<"COM3">>
    /\ combo.state = "readonly"
    /\ ~port_refreshing

\* C20: no step of a port-scan thread touches a widget, neither the port
\* selector nor the log text, the enumeration-error path included.
C20_WidgetsOnUiThreadOnly ==
    [][ev'.op \in ScanOps => (combo' = combo /\ hlog' = <<>>)]_vars

\* C18: once no scan is in flight (no scan thread alive, no callback of a
\* scan waiting in the Tk queue) the port selector is readonly and holds
\* the non-empty filtered list or "No USB Found"; it is not left disabled
\* or showing "Scanning...".
NoScanInFlight == pc = EmptyBag /\ uiq = <<>>

C18_Terminal ==
    /\ combo.state = "readonly"
    /\ combo.values # <<>>
    /\ \/ combo.values = <<"No USB Found">>
       \/ \A k \in 1..Len(combo.values) :
              combo.values[k] \notin {"Scanning...", "No USB Found"}

C18_ScanTerminates == NoScanInFlight => C18_Terminal

\* C19: at most one transport is open at a time: whenever connect opens a
\* new transport, no transport opened before is still open, so none is
\* orphaned when serial_conn is overwritten.
C19_NoOrphanedHandle ==
    [][(ev'.op = "toggle" /\ ev'.res = "connected")
        => \A h \in Handles : ~is_open[h]]_vars

====
